---- MODULE Spec2Model ----
(***************************************************************************)
(* Model of src/metrics.py: calculate_mtl, the catch-weighted Mean Trophic *)
(* Level of a fishery catch, and the module-level table TROPHIC_LEVELS.    *)
(*                                                                         *)
(* Numbers.  A Python float is a record [k, n, d]: k = "fin" is the        *)
(* rational n/d, k = "inf" is +infinity, k = "nan" is NaN.  Catch masses   *)
(* are whole kilograms; trophic levels are kept in tenths (3.5 is 35), so  *)
(* weighted_sum and the returned value are in tenths too.  Finite          *)
(* arithmetic is exact: rounding of binary floating point is not modelled. *)
(*                                                                         *)
(* Objects.  DataFrames live in a heap, frames, indexed by address, so     *)
(* that the difference between the caller's object and the copy made at    *)
(* line 60 is visible.  A call c is one activation of calculate_mtl with   *)
(* its own locals catch_df[c], total_catch[c], weighted_sum[c],            *)
(* missing_species[c] and iterator position i[c].                          *)
(***************************************************************************)
EXTENDS Integers, Sequences, FiniteSets, TLC

\* ------------------------------------------------------------------ bounds
\* Longest record sequence of the first call in the sequential specification.
MaxRows == 2
\* Longest record sequence of a call in the concurrent specification.
MaxRowsConc == 2

\* ------------------------------------------------------------------ floats
Fin(n) == [k |-> "fin", n |-> n, d |-> 1]
Inf == [k |-> "inf", n |-> 1, d |-> 1]
NaN == [k |-> "nan", n |-> 0, d |-> 1]
\* A local that has not been assigned yet.
Unbound == [k |-> "unbound", n |-> 0, d |-> 1]

RECURSIVE GCD(_, _)
GCD(a, b) == IF b = 0 THEN a ELSE GCD(b, a % b)

Abs(n) == IF n < 0 THEN -n ELSE n

\* The rational n/d (d # 0) in lowest terms, with a positive denominator.
Ratio(n, d) ==
    LET g == GCD(Abs(n), Abs(d))
        sign == IF d < 0 THEN -1 ELSE 1
    IN  [k |-> "fin", n |-> (sign * n) \div g, d |-> Abs(d) \div g]

\* x + y for accumulators: whole finite numbers or +infinity.
FAdd(x, y) ==
    CASE x.k = "nan" \/ y.k = "nan" -> NaN
      [] x.k = "inf" \/ y.k = "inf" -> Inf
      [] OTHER -> Fin(x.n + y.n)

\* x * y, where no operand is zero or negative when the other is infinite.
FMul(x, y) ==
    CASE x.k = "nan" \/ y.k = "nan" -> NaN
      [] x.k = "inf" \/ y.k = "inf" -> Inf
      [] OTHER -> Fin(x.n * y.n)

\* x / y for y # 0: inf / inf is NaN.
FDiv(x, y) ==
    CASE x.k = "nan" \/ y.k = "nan" -> NaN
      [] x.k = "inf" /\ y.k = "inf" -> NaN
      [] x.k = "inf" -> Inf
      [] y.k = "inf" -> Fin(0)
      [] OTHER -> Ratio(x.n, y.n)

\* pd.isna(x)
IsNA(x) == x.k = "nan"

\* x <= 0 (False for NaN and for +infinity).
LeqZero(x) == x.k = "fin" /\ x.n <= 0

\* ------------------------------------------------------- reference table
\* TROPHIC_LEVELS, in tenths.
TrophicLevelTable ==
    [s \in {"Atlantic cod", "Pacific sardine", "Bluefin tuna", "Anchovy",
            "Mackerel", "Squid", "Shrimp", "Lobster", "Salmon", "Halibut",
            "Haddock", "Plaice", "Herring", "Swordfish", "Mahi-mahi"} |->
        CASE s = "Atlantic cod" -> 35
          [] s = "Pacific sardine" -> 28
          [] s = "Bluefin tuna" -> 42
          [] s = "Anchovy" -> 27
          [] s = "Mackerel" -> 32
          [] s = "Squid" -> 30
          [] s = "Shrimp" -> 25
          [] s = "Lobster" -> 29
          [] s = "Salmon" -> 38
          [] s = "Halibut" -> 36
          [] s = "Haddock" -> 33
          [] s = "Plaice" -> 31
          [] s = "Herring" -> 29
          [] s = "Swordfish" -> 44
          [] s = "Mahi-mahi" -> 37]

\* ------------------------------------------------------------ input cells
\* A cell of the catch_kg column: a float, or a string.
Num(x) == [t |-> "num", x |-> x, s |-> ""]
Str(s) == [t |-> "str", x |-> NaN, s |-> s]

\* What float() makes of a string; NaN stands for "cannot be parsed".
ParseFloat(s) ==
    CASE s = "3" -> Fin(3)
      [] s = "inf" -> Inf
      [] OTHER -> NaN

\* pd.to_numeric(..., errors="coerce") on one cell.
ToNumeric(cell) == IF cell.t = "str" THEN ParseFloat(cell.s) ELSE cell.x

Row(sp, cell) == [species_name |-> sp, catch_kg |-> cell]

\* The rows the inputs are built from.
RowValues ==
    { Row("Shrimp", Num(Fin(1))),
      Row("Swordfish", Num(Fin(2))),
      Row("Shrimp", Str("3")),
      Row("Unknown fish", Num(Fin(1))),
      Row("shrimp", Num(Fin(2))),
      Row("Unknown fish", Num(Fin(0))),
      Row("Swordfish", Num(Fin(-1))),
      Row("Shrimp", Str("abc")),
      Row("Shrimp", Num(Inf)) }

\* The rows of the concurrent specification.
RowValuesConc ==
    { Row("Shrimp", Num(Fin(1))),
      Row("Swordfish", Str("3")),
      Row("Unknown fish", Num(Fin(1))) }

SeqsUpTo(S, n) == UNION { [1..m -> S] : m \in 0..n }

RequiredCols == {"species_name", "catch_kg"}

ColumnSets ==
    { RequiredCols, {"species_name"}, {"catch_kg"}, {"species", "weight"},
      {"species_name", "catch_kg", "port"} }

\* An object handed to calculate_mtl: type is the Python type, columns the
\* column labels, rows the rows (read only when both columns exist).
Frame(type, columns, rows) == [type |-> type, columns |-> columns, rows |-> rows]
NoFrame == Frame("none", {}, <<>>)

WellFormed(f) == f.type = "DataFrame" /\ RequiredCols \subseteq f.columns

\* DataFrames with exactly the two required columns and up to n rows.
TabularInputs(S, n) ==
    { Frame("DataFrame", RequiredCols, rows) : rows \in SeqsUpTo(S, n) }

\* Every type and column set, over at most one row: the inputs with a
\* structural defect and the DataFrames with a column more than required.
SmallInputs(S) ==
    { Frame(type, cols, rows) :
        type \in {"DataFrame", "list"},
        cols \in ColumnSets,
        rows \in SeqsUpTo(S, 1) }

\* r with row x inserted so that it becomes row p.
InsertAt(r, p, x) ==
    [j \in 1..(Len(r) + 1) |->
        IF j < p THEN r[j] ELSE IF j = p THEN x ELSE r[j - 1]]

\* The rearrangements of r.
Rearrangements(r) ==
    { [j \in 1..Len(r) |-> r[f[j]]] :
        f \in { g \in [1..Len(r) -> 1..Len(r)] :
                  \A a, b \in 1..Len(r) : a # b => g[a] # g[b] } }

\* The inputs of a second call that the relational properties compare with
\* a first call on f: f with one more row, or with its rows rearranged.
Related(f, S) ==
    { Frame(f.type, f.columns, r) :
        r \in { InsertAt(f.rows, p, x) : p \in 1..(Len(f.rows) + 1), x \in S }
              \cup Rearrangements(f.rows) }

\* ------------------------------------------------------------------ state
VARIABLES
    TROPHIC_LEVELS,   \* the module-level dict
    frames,           \* heap: address -> DataFrame (or other object)
    log,              \* records handed to logger.warning, oldest first
    given,            \* call -> the argument as the caller built it
    after,            \* call -> the calls the caller lets return first
    pc,               \* call -> position in calculate_mtl
    catch_df,         \* call -> address the local name catch_df is bound to
    i,                \* call -> number of rows the for loop has taken
    total_catch,      \* call -> local float
    weighted_sum,     \* call -> local float
    missing_species,  \* call -> local list
    outcome           \* call -> how the call ended

vars == <<TROPHIC_LEVELS, frames, log, given, after, pc, catch_df, i,
          total_catch, weighted_sum, missing_species, outcome>>

Calls == DOMAIN pc

\* The caller's object of call c, and the object DataFrame.copy() makes.
ArgAddr(c) == <<"arg", c>>
CopyAddr(c) == <<"copy", c>>
NoAddr == <<"none", 0>>

Pending == [kind |-> "pending", value |-> Unbound]
Raised(kind) == [kind |-> kind, value |-> Unbound]
Returned(x) == [kind |-> "return", value |-> x]

\* The state before any call, for the arguments args (call -> object) and
\* the caller's sequencing order.
Start(args, order) ==
    /\ TROPHIC_LEVELS = TrophicLevelTable
    /\ frames = [a \in { ArgAddr(c) : c \in DOMAIN args }
                       \cup { CopyAddr(c) : c \in DOMAIN args } |->
                    IF a[1] = "arg" THEN args[a[2]] ELSE NoFrame]
    /\ log = <<>>
    /\ given = args
    /\ after = order
    /\ pc = [c \in DOMAIN args |-> "ready"]
    /\ catch_df = [c \in DOMAIN args |-> NoAddr]
    /\ i = [c \in DOMAIN args |-> 0]
    /\ total_catch = [c \in DOMAIN args |-> Unbound]
    /\ weighted_sum = [c \in DOMAIN args |-> Unbound]
    /\ missing_species = [c \in DOMAIN args |-> <<>>]
    /\ outcome = [c \in DOMAIN args |-> Pending]

\* Two calls one after the other, the second on an input related to the
\* first one's.
Init ==
    \E f \in TabularInputs(RowValues, MaxRows) \cup SmallInputs(RowValues) :
        \E g \in Related(f, RowValues) :
            Start(<<f, g>>, <<{}, {1}>>)

\* Calls 1 and 2 run concurrently on independent inputs; calls 3 and 4 repeat
\* them, each alone, after all earlier calls have ended.
InitConc ==
    \E f, g \in TabularInputs(RowValuesConc, MaxRowsConc)
                  \cup SmallInputs(RowValuesConc) :
        Start(<<f, g, f, g>>, <<{}, {}, {1, 2}, {1, 2, 3}>>)

\* ---------------------------------------------------------------- helpers
\* Mutant of HasRequiredCols: one required column is enough.
HasAnyRequiredCol(cols) == RequiredCols \cap cols # {}

\* line 56: required_cols.issubset(catch_df.columns)
HasRequiredCols(cols) == RequiredCols \subseteq cols

\* Mutant of DataFrameCopy: no copy, the caller's own object.
DataFrameAlias(c) == ArgAddr(c)

\* line 60: the object catch_df.copy() returns for call c, a new one.
DataFrameCopy(c) == CopyAddr(c)

\* line 61: the rows with catch_kg replaced by pd.to_numeric(catch_kg).
Coerced(rows) ==
    [j \in DOMAIN rows |->
        Row(rows[j].species_name, Num(ToNumeric(rows[j].catch_kg)))]

\* Mutant of IsInvalidCatch: the test catch <= 0 is missing.
IsNAOnly(catch) == IsNA(catch)

\* line 70: pd.isna(catch) or catch <= 0
IsInvalidCatch(catch) == IsNA(catch) \/ LeqZero(catch)

\* Mutant of AfterSkip: break instead of continue.
BreakOnSkip(idx, len) == len

\* line 71: continue; the loop goes on with the row after row idx of len.
AfterSkip(idx, len) == idx

\* Mutant of Weighted: the trophic level is not weighted by the catch.
Unweighted(tl, catch) == Fin(tl)

\* line 75: tl * catch
Weighted(tl, catch) == FMul(Fin(tl), catch)

\* Mutant of ShouldWarn: the warning is never logged.
NeverWarn(ms) == FALSE

\* line 80: if missing_species
ShouldWarn(ms) == ms # <<>>

\* Mutant of MissingNames: only the last missing species is reported.
LastMissingOnly(ms) == { ms[Len(ms)] }

\* line 82: set(missing_species)
MissingNames(ms) == { ms[j] : j \in DOMAIN ms }

\* ---------------------------------------------------------------- actions
\* line 31: the caller calls calculate_mtl(arg); the parameter is bound.
Call(c) ==
    /\ pc[c] = "ready"
    /\ \A d \in after[c] : pc[d] = "done"
    /\ catch_df' = [catch_df EXCEPT ![c] = ArgAddr(c)]
    /\ pc' = [pc EXCEPT ![c] = "isinstance"]
    /\ UNCHANGED <<TROPHIC_LEVELS, frames, log, given, after, i, total_catch,
                   weighted_sum, missing_species, outcome>>

\* lines 52-53
CheckType(c) ==
    /\ pc[c] = "isinstance"
    /\ IF frames[catch_df[c]].type # "DataFrame"
         THEN /\ outcome' = [outcome EXCEPT ![c] = Raised("TypeError")]
              /\ pc' = [pc EXCEPT ![c] = "done"]
         ELSE /\ pc' = [pc EXCEPT ![c] = "columns"]
              /\ UNCHANGED outcome
    /\ UNCHANGED <<TROPHIC_LEVELS, frames, log, given, after, catch_df, i,
                   total_catch, weighted_sum, missing_species>>

\* lines 55-57
CheckColumns(c) ==
    /\ pc[c] = "columns"
    /\ IF ~HasRequiredCols(frames[catch_df[c]].columns)
         THEN /\ outcome' = [outcome EXCEPT ![c] = Raised("ValueError: columns")]
              /\ pc' = [pc EXCEPT ![c] = "done"]
         ELSE /\ pc' = [pc EXCEPT ![c] = "copy"]
              /\ UNCHANGED outcome
    /\ UNCHANGED <<TROPHIC_LEVELS, frames, log, given, after, catch_df, i,
                   total_catch, weighted_sum, missing_species>>

\* line 60: catch_df = catch_df.copy()
Copy(c) ==
    /\ pc[c] = "copy"
    /\ frames' = [frames EXCEPT ![DataFrameCopy(c)] = frames[catch_df[c]]]
    /\ catch_df' = [catch_df EXCEPT ![c] = DataFrameCopy(c)]
    /\ pc' = [pc EXCEPT ![c] = "to_numeric"]
    /\ UNCHANGED <<TROPHIC_LEVELS, log, given, after, i, total_catch,
                   weighted_sum, missing_species, outcome>>

\* line 61: catch_df["catch_kg"] = pd.to_numeric(catch_df["catch_kg"], ...)
Coerce(c) ==
    /\ pc[c] = "to_numeric"
    /\ frames' = [frames EXCEPT ![catch_df[c]].rows = Coerced(@)]
    /\ pc' = [pc EXCEPT ![c] = "init"]
    /\ UNCHANGED <<TROPHIC_LEVELS, log, given, after, catch_df, i, total_catch,
                   weighted_sum, missing_species, outcome>>

\* Mutant of InitAccumulators: the accumulators are module-level, one set
\* for all calls, so that entering the loop resets them for every call.
InitSharedAccumulators(c) ==
    /\ pc[c] = "init"
    /\ total_catch' = [d \in Calls |-> Fin(0)]
    /\ weighted_sum' = [d \in Calls |-> Fin(0)]
    /\ missing_species' = [d \in Calls |-> <<>>]
    /\ pc' = [pc EXCEPT ![c] = "loop"]
    /\ UNCHANGED <<TROPHIC_LEVELS, frames, log, given, after, catch_df, i,
                   outcome>>

\* lines 63-65
InitAccumulators(c) ==
    /\ pc[c] = "init"
    /\ total_catch' = [total_catch EXCEPT ![c] = Fin(0)]
    /\ weighted_sum' = [weighted_sum EXCEPT ![c] = Fin(0)]
    /\ missing_species' = [missing_species EXCEPT ![c] = <<>>]
    /\ pc' = [pc EXCEPT ![c] = "loop"]
    /\ UNCHANGED <<TROPHIC_LEVELS, frames, log, given, after, catch_df, i,
                   outcome>>

\* lines 67-78: one iteration of the for loop, on row i[c] + 1.
IterRow(c) ==
    /\ pc[c] = "loop"
    /\ i[c] < Len(frames[catch_df[c]].rows)
    /\ LET rows == frames[catch_df[c]].rows
           row == rows[i[c] + 1]
           species == row.species_name
           catch == row.catch_kg.x
       IN  IF IsInvalidCatch(catch)
             THEN /\ i' = [i EXCEPT ![c] = AfterSkip(i[c] + 1, Len(rows))]
                  /\ UNCHANGED <<total_catch, weighted_sum, missing_species>>
             ELSE /\ i' = [i EXCEPT ![c] = i[c] + 1]
                  /\ IF species \in DOMAIN TROPHIC_LEVELS
                       THEN /\ weighted_sum' =
                                 [weighted_sum EXCEPT ![c] =
                                     FAdd(@, Weighted(TROPHIC_LEVELS[species], catch))]
                            /\ total_catch' =
                                 [total_catch EXCEPT ![c] = FAdd(@, catch)]
                            /\ UNCHANGED missing_species
                       ELSE /\ missing_species' =
                                 [missing_species EXCEPT ![c] = Append(@, species)]
                            /\ UNCHANGED <<total_catch, weighted_sum>>
    /\ UNCHANGED <<TROPHIC_LEVELS, frames, log, given, after, pc, catch_df,
                   outcome>>

\* line 67: iterrows() is exhausted.
LoopExit(c) ==
    /\ pc[c] = "loop"
    /\ i[c] >= Len(frames[catch_df[c]].rows)
    /\ pc' = [pc EXCEPT ![c] = "warn"]
    /\ UNCHANGED <<TROPHIC_LEVELS, frames, log, given, after, catch_df, i,
                   total_catch, weighted_sum, missing_species, outcome>>

\* lines 80-84
Warn(c) ==
    /\ pc[c] = "warn"
    /\ IF ShouldWarn(missing_species[c])
         THEN log' = Append(log, [call |-> c,
                                  names |-> MissingNames(missing_species[c])])
         ELSE UNCHANGED log
    /\ pc' = [pc EXCEPT ![c] = "result"]
    /\ UNCHANGED <<TROPHIC_LEVELS, frames, given, after, catch_df, i,
                   total_catch, weighted_sum, missing_species, outcome>>

\* lines 86-92
Finish(c) ==
    /\ pc[c] = "result"
    /\ IF total_catch[c] = Fin(0)
         THEN outcome' = [outcome EXCEPT ![c] = Raised("ValueError: no valid catch data")]
         ELSE outcome' = [outcome EXCEPT ![c] =
                             Returned(FDiv(weighted_sum[c], total_catch[c]))]
    /\ pc' = [pc EXCEPT ![c] = "done"]
    /\ UNCHANGED <<TROPHIC_LEVELS, frames, log, given, after, catch_df, i,
                   total_catch, weighted_sum, missing_species>>

Next ==
    \/ \E c \in Calls : Call(c)
    \/ \E c \in Calls : CheckType(c)
    \/ \E c \in Calls : CheckColumns(c)
    \/ \E c \in Calls : Copy(c)
    \/ \E c \in Calls : Coerce(c)
    \/ \E c \in Calls : InitAccumulators(c)
    \/ \E c \in Calls : IterRow(c)
    \/ \E c \in Calls : LoopExit(c)
    \/ \E c \in Calls : Warn(c)
    \/ \E c \in Calls : Finish(c)

Spec == Init /\ [][Next]_vars

SpecConc == InitConc /\ [][Next]_vars
\* ------------------------------------------------- vocabulary of the claims
Done(c) == pc[c] = "done"

\* The catch of a row as a number, after coercion.
CatchOf(row) == ToNumeric(row.catch_kg)

\* A number greater than zero: finite, or +infinity.
PositiveCatch(row) ==
    \/ CatchOf(row).k = "fin" /\ CatchOf(row).n > 0
    \/ CatchOf(row).k = "inf"

FinitePositiveCatch(row) == CatchOf(row).k = "fin" /\ CatchOf(row).n > 0

\* Zero, negative, or not coercible to a number.
NonPositiveCatch(row) ==
    \/ CatchOf(row).k = "nan"
    \/ CatchOf(row).k = "fin" /\ CatchOf(row).n <= 0

Matched(row) == row.species_name \in DOMAIN TrophicLevelTable

\* A row that counts: valid positive catch and a species of the table.
Contributes(row) == PositiveCatch(row) /\ Matched(row)

RowsOf(r) == { r[j] : j \in DOMAIN r }

\* The species that are unmatched in a row with a valid positive catch.
UnmatchedNames(r) ==
    { row.species_name : row \in { x \in RowsOf(r) : PositiveCatch(x) /\ ~Matched(x) } }

\* The warnings call c has logged so far, and the name sets they list.
Emitted(c) == SelectSeq(log, LAMBDA e : e.call = c)
EmittedNames(c) == { Emitted(c)[j].names : j \in DOMAIN Emitted(c) }

RECURSIVE SumCatch(_)
SumCatch(r) ==
    IF r = <<>> THEN 0 ELSE CatchOf(Head(r)).n + SumCatch(Tail(r))

RECURSIVE SumWeighted(_)
SumWeighted(r) ==
    IF r = <<>> THEN 0
    ELSE TrophicLevelTable[Head(r).species_name] * CatchOf(Head(r)).n
           + SumWeighted(Tail(r))

\* r2 is r with one more row, a row for which P holds, at some position.
IsInsertion(r, r2, P(_)) ==
    /\ Len(r2) = Len(r) + 1
    /\ \E p \in 1..Len(r2) : P(r2[p]) /\ r2 = InsertAt(r, p, r2[p])

NoValidData == Raised("ValueError: no valid catch data")

\* ----------------------------------------------------------------- claims
\* C1: a call on a non-empty DataFrame in which every species is in the table
\* and every catch is a positive number returns
\* sum(tl * catch) / sum(catch) over all rows, repeated species included.
C1_WeightedMean ==
    \A c \in Calls :
        LET r == given[c].rows
        IN  ( /\ Done(c)
              /\ WellFormed(given[c])
              /\ r # <<>>
              /\ \A row \in RowsOf(r) : Matched(row) /\ FinitePositiveCatch(row) )
            => /\ outcome[c].kind = "return"
               /\ outcome[c].value.k = "fin"
               /\ outcome[c].value.n * SumCatch(r)
                    = outcome[c].value.d * SumWeighted(r)

C1_Witness ==
    \E c \in Calls :
        LET r == given[c].rows
        IN  /\ Done(c)
            /\ WellFormed(given[c])
            /\ Len(r) >= 2
            /\ \A row \in RowsOf(r) : Matched(row) /\ FinitePositiveCatch(row)
            /\ r[1].species_name = r[2].species_name
            /\ r[1] # r[2]
            /\ outcome[c].kind = "return"

\* C2: adding a row whose catch is zero, negative or not coercible never
\* changes the result: for a DataFrame R with both required columns and R
\* with such a row inserted at any position, the two calls end with the same
\* numeric value or the same failure.
C2_NonPositiveRowIgnored ==
    ( /\ Done(1) /\ Done(2)
      /\ WellFormed(given[1])
      /\ given[2].columns = given[1].columns
      /\ IsInsertion(given[1].rows, given[2].rows, NonPositiveCatch) )
    => outcome[2] = outcome[1]

C2_Witness ==
    /\ Done(1) /\ Done(2)
    /\ WellFormed(given[1])
    /\ Len(given[1].rows) = 2
    /\ NonPositiveCatch(given[2].rows[2])
    /\ Matched(given[2].rows[2])
    /\ given[2].rows = InsertAt(given[1].rows, 2, given[2].rows[2])
    /\ \A row \in RowsOf(given[1].rows) : ~NonPositiveCatch(row)
    /\ outcome[1].kind = "return"
    /\ outcome[1].value.k = "fin"
    /\ outcome[2] = outcome[1]

C4_NoValidDataIff ==
    \A c \in Calls :
        (Done(c) /\ WellFormed(given[c]))
        => IF \E row \in RowsOf(given[c].rows) : Contributes(row)
             THEN /\ outcome[c].kind = "return"
                  /\ outcome[c].value.k = "fin"
                  /\ outcome[c].value.n > 0
             ELSE outcome[c] = NoValidData

\* What remains of C4 when no catch is infinite.
C4_FiniteInputs ==
    \A c \in Calls :
        ( /\ Done(c) /\ WellFormed(given[c])
          /\ \A row \in RowsOf(given[c].rows) : CatchOf(row).k # "inf" )
        => IF \E row \in RowsOf(given[c].rows) : Contributes(row)
             THEN /\ outcome[c].kind = "return"
                  /\ outcome[c].value.k = "fin"
                  /\ outcome[c].value.n > 0
             ELSE outcome[c] = NoValidData

\* C5: an input that is not a DataFrame fails with TypeError, also when it
\* lacks the columns; a DataFrame lacking species_name or catch_kg fails with
\* the ValueError naming the columns; in both cases no accumulator is ever
\* assigned, no row is taken and no warning is logged.
C5_StructuralErrors ==
    \A c \in Calls :
        ~WellFormed(given[c])
        => /\ i[c] = 0
           /\ total_catch[c] = Unbound
           /\ weighted_sum[c] = Unbound
           /\ missing_species[c] = <<>>
           /\ Emitted(c) = <<>>
           /\ pc[c] \in {"ready", "isinstance", "columns", "done"}
           /\ Done(c) =>
                outcome[c] = IF given[c].type # "DataFrame"
                               THEN Raised("TypeError")
                               ELSE Raised("ValueError: columns")

C5_Witness ==
    \E c \in Calls :
        /\ Done(c)
        /\ given[c].type = "list"
        /\ given[c].columns = {"species", "weight"}
        /\ Len(given[c].rows) = 2
        /\ \E row \in RowsOf(given[c].rows) : Contributes(row)
        /\ outcome[c] = Raised("TypeError")
        /\ Emitted(c) = <<>>

C7_NoMutation ==
    /\ TROPHIC_LEVELS = TrophicLevelTable
    /\ Cardinality(DOMAIN TROPHIC_LEVELS) = 15
    /\ \A sp \in DOMAIN TROPHIC_LEVELS :
          10 <= TROPHIC_LEVELS[sp] /\ TROPHIC_LEVELS[sp] <= 50
    /\ \A c \in Calls : frames[ArgAddr(c)] = given[c]

C7_Witness ==
    /\ Done(1) /\ Done(2)
    /\ outcome[1].kind = "return"
    /\ outcome[2].kind = "return"
    /\ \E row \in RowsOf(given[1].rows) : row.catch_kg.t = "str"
    /\ frames[CopyAddr(1)].rows = Coerced(given[1].rows)
    /\ frames[CopyAddr(1)].rows # given[1].rows
    /\ frames[CopyAddr(2)].rows # given[2].rows

\* C8: calls 1 and 2, whose steps interleave in any order, each end with the
\* outcome and the warning that the same input gives when the call runs
\* alone (calls 3 and 4).
C8_Isolation ==
    \A c \in {1, 2} :
        (Done(c) /\ Done(c + 2))
        => /\ outcome[c] = outcome[c + 2]
           /\ EmittedNames(c) = EmittedNames(c + 2)

C8_Witness ==
    /\ \A c \in Calls : Done(c)
    /\ outcome[1].kind = "return"
    /\ outcome[2].kind = "return"
    /\ outcome[1] # outcome[2]
    /\ outcome[3] = outcome[1]
    /\ outcome[4] = outcome[2]
    /\ Len(log) = 4
    /\ log[1].call = 2
    /\ log[2].call = 1

\* Both concurrent calls are inside the loop, each with rows taken and rows
\* left: their iterations interleave.
C8_Overlap ==
    \A c \in {1, 2} :
        /\ pc[c] = "loop"
        /\ 0 < i[c]
        /\ i[c] < Len(given[c].rows)
        /\ total_catch[c].n > 0

\* x <= y for finite numbers and +infinity.
ExtLeq(x, y) == y.k = "inf" \/ (x.k = "fin" /\ y.k = "fin" /\ x.n <= y.n)

\* The trophic levels of the rows of r that count.
ContributingTLs(r) ==
    { TrophicLevelTable[row.species_name] :
        row \in { x \in RowsOf(r) : Contributes(x) } }

\* The rows call c has taken so far.
Taken(c) == SubSeq(given[c].rows, 1, i[c])

\* lo <= v <= hi for a returned value v = n/d in tenths.
Within(v, lo, hi) == v.k = "fin" /\ lo * v.d <= v.n /\ v.n <= hi * v.d

\* After every row: total_catch >= 0, total_catch = 0 exactly when no row has
\* counted so far, and min_tl * total_catch <= weighted_sum <= max_tl * total_catch.
AccumulatorsBounded(c) ==
    LET tls == ContributingTLs(Taken(c))
    IN  /\ ExtLeq(Fin(0), total_catch[c])
        /\ total_catch[c] = Fin(0) <=> tls = {}
        /\ tls = {} => weighted_sum[c] = Fin(0)
        /\ \A tl \in tls :
              /\ (\A other \in tls : tl <= other)
                    => ExtLeq(FMul(Fin(tl), total_catch[c]), weighted_sum[c])
              /\ (\A other \in tls : other <= tl)
                    => ExtLeq(weighted_sum[c], FMul(Fin(tl), total_catch[c]))

\* C9: a returned value lies between the smallest and the largest trophic
\* level of the rows that counted, hence within [2.5, 4.4] and [1.0, 5.0];
\* and after every row the accumulators are bounded as AccumulatorsBounded says.
C9_ResultWithinRange ==
    \A c \in Calls :
        /\ outcome[c].kind = "return" =>
              LET tls == ContributingTLs(given[c].rows)
              IN  /\ \E lo, hi \in tls : Within(outcome[c].value, lo, hi)
                  /\ Within(outcome[c].value, 25, 44)
                  /\ Within(outcome[c].value, 10, 50)
        /\ pc[c] \in {"loop", "warn", "result", "done"} /\ WellFormed(given[c])
             => AccumulatorsBounded(c)

\* What remains of C9: the accumulators are bounded after every row, and a
\* returned value is within the range unless a row with an infinite catch
\* counted, in which case it is NaN.
C9_ExceptInfinite ==
    \A c \in Calls :
        /\ outcome[c].kind = "return" =>
              LET tls == ContributingTLs(given[c].rows)
              IN  IF \E row \in RowsOf(given[c].rows) :
                         Contributes(row) /\ CatchOf(row).k = "inf"
                    THEN outcome[c].value = NaN
                    ELSE /\ \E lo, hi \in tls : Within(outcome[c].value, lo, hi)
                         /\ Within(outcome[c].value, 25, 44)
        /\ pc[c] \in {"loop", "warn", "result", "done"} /\ WellFormed(given[c])
             => AccumulatorsBounded(c)

====
